---- MODULE Spec2Model ----
(***************************************************************************)
(* A model of pkg/tasks/probes.go: the live-state investigation of a       *)
(* control plane.  runProbes builds the LiveCluster aggregate, probes      *)
(* every control-plane host in parallel (investigateHost) and, when the    *)
(* cluster is provisioned, reconciles it (investigateCluster).             *)
(***************************************************************************)
EXTENDS Integers, Sequences, FiniteSets, TLC

VARIABLES
    hosts,          \* s.Cluster.ControlPlane.Hosts: <<[Hostname, OperatingSystem, IsLeader]>>
    live,           \* s.LiveCluster.ControlPlane: <<state.Host>>, Config is an index into hosts
    lock,           \* s.LiveCluster.Lock: the set of its holders, a task index or 0 (main)
    pc,             \* position of the main goroutine (runProbes / investigateCluster)
    tpc,            \* position of each investigateHost task
    th,             \* each task's local h: <<copy of its entry>>, or <<>> when h == nil
    tidx,           \* each task's local idx
    terr,           \* each task's returned error ("" is nil)
    texec,          \* each task's connection: the commands executed so far
    taskErr,        \* the error RunTaskOnControlPlane retains
    err,            \* the error runProbes / investigateCluster returned ("" is nil)
    ci,             \* loop index of the reconciliation loops
    leaderElected,  \* local of investigateCluster
    calls,          \* external collaborator calls made by investigateCluster
    nodes,          \* nodes.Items: the node names the Kubernetes API returned
    hostsToBeProvisioned, \* local of investigateCluster
    nodesToBeRemoved,     \* local of investigateCluster
    uIn,            \* unit harness: the input of the function under check
    uOut            \* unit harness: its result, once pc = "applied"

vars == <<hosts, live, lock, pc, tpc, th, tidx, terr, texec, taskErr, err, ci,
          leaderElected, calls, nodes, hostsToBeProvisioned, nodesToBeRemoved,
          uIn, uOut>>

Nil == "nil"

(***************************************************************************)
(* Bounds of the model.                                                    *)
(***************************************************************************)
\* control-plane hosts in a full concurrent investigation cycle
MaxProbeHosts == 2
\* control-plane hosts in a reconciliation (investigateCluster) run
MaxHosts == 3
\* largest exit code a remote command returns
MaxExit == 2

\* the pool hostnames are taken from, in configured order
HostNamePool == <<"h1", "h2", "h3", "h4", "h5", "h6">>

\* a node name that is no configured host
StrayNode == "x9"

(***************************************************************************)
(* state.* status flags: independent bits of a uint64.                     *)
(***************************************************************************)
SystemDStatusUnknown == 1
SystemdDStatusDead == 2
SystemDStatusRestarting == 4
ComponentInstalled == 8
SystemDStatusActive == 16
SystemDStatusRunning == 32
KubeletInitialized == 64
PodRunning == 128

RECURSIVE BitOr(_, _)
\* a | b on unsigned integers
BitOr(a, b) ==
    IF a = 0 THEN b
    ELSE IF b = 0 THEN a
    ELSE (IF (a % 2 = 1) \/ (b % 2 = 1) THEN 1 ELSE 0) + 2 * BitOr(a \div 2, b \div 2)

RECURSIVE BitAnd(_, _)
\* a & b on unsigned integers
BitAnd(a, b) ==
    IF a = 0 \/ b = 0 THEN 0
    ELSE (IF (a % 2 = 1) /\ (b % 2 = 1) THEN 1 ELSE 0) + 2 * BitAnd(a \div 2, b \div 2)

\* status&flag != 0
HasFlag(status, flag) == BitAnd(status, flag) # 0

(***************************************************************************)
(* Remote command output.  A status text is a sequence of lines, each a    *)
(* key, a separator and a value; a line with an empty separator is text    *)
(* that is no key/value pair.                                              *)
(***************************************************************************)
Line(k, s, v) == [key |-> k, sep |-> s, value |-> v]

\* strings.ReplaceAll(out, "=", ": ")
ReplaceAllEq(out) ==
    [n \in 1..Len(out) |->
        IF out[n].sep = "=" THEN [out[n] EXCEPT !.sep = ": "] ELSE out[n]]

\* yaml.Unmarshal([]byte(out), &m) fails when a line is no "key: value" mapping
YamlFails(out) == \E n \in 1..Len(out) : out[n].sep # ": "

RECURSIVE YamlGet(_, _)
\* m[key] of the map yaml.Unmarshal decodes; "" (the zero value) when absent
YamlGet(out, key) ==
    IF Len(out) = 0 THEN ""
    ELSE IF out[Len(out)].key = key THEN out[Len(out)].value
    ELSE YamlGet(SubSeq(out, 1, Len(out) - 1), key)

\* the result of conn.Exec: stdout, exit code and error ("" is nil)
ExecResult(o, code, e) == [out |-> o, exitcode |-> code, err |-> e]

systemdStatus_DeadIsUnknown(res) ==
    IF res.err # "" THEN [status |-> 0, err |-> res.err]
    ELSE LET out == ReplaceAllEq(res.out) IN
         IF YamlFails(out) THEN [status |-> 0, err |-> "yaml"]
         ELSE LET s1 == IF YamlGet(out, "LoadState") = "loaded" THEN ComponentInstalled ELSE 0
                  s2 == IF YamlGet(out, "ActiveState") \in {"active", "activating"}
                        THEN BitOr(s1, SystemDStatusActive) ELSE s1
                  sub == YamlGet(out, "SubState")
                  s3 == IF sub = "running" THEN BitOr(s2, SystemDStatusRunning)
                        ELSE IF sub = "auto-restart" THEN BitOr(s2, SystemDStatusRestarting)
                        ELSE BitOr(s2, SystemDStatusUnknown)
              IN [status |-> s3, err |-> ""]

systemdStatus_ActiveOnly(res) ==
    IF res.err # "" THEN [status |-> 0, err |-> res.err]
    ELSE LET out == ReplaceAllEq(res.out) IN
         IF YamlFails(out) THEN [status |-> 0, err |-> "yaml"]
         ELSE LET s1 == IF YamlGet(out, "LoadState") = "loaded" THEN ComponentInstalled ELSE 0
                  s2 == IF YamlGet(out, "ActiveState") = "active"
                        THEN BitOr(s1, SystemDStatusActive) ELSE s1
                  sub == YamlGet(out, "SubState")
                  s3 == IF sub = "running" THEN BitOr(s2, SystemDStatusRunning)
                        ELSE IF sub = "auto-restart" THEN BitOr(s2, SystemDStatusRestarting)
                        ELSE IF sub = "dead" THEN BitOr(s2, SystemdDStatusDead)
                        ELSE BitOr(s2, SystemDStatusUnknown)
              IN [status |-> s3, err |-> ""]

\* systemdStatus(conn, service), res being what conn.Exec returned
systemdStatus(res) ==
    IF res.err # "" THEN [status |-> 0, err |-> res.err]
    ELSE LET out == ReplaceAllEq(res.out) IN
         IF YamlFails(out) THEN [status |-> 0, err |-> "yaml"]
         ELSE LET s1 == IF YamlGet(out, "LoadState") = "loaded" THEN ComponentInstalled ELSE 0
                  s2 == IF YamlGet(out, "ActiveState") \in {"active", "activating"}
                        THEN BitOr(s1, SystemDStatusActive) ELSE s1
                  sub == YamlGet(out, "SubState")
                  s3 == IF sub = "running" THEN BitOr(s2, SystemDStatusRunning)
                        ELSE IF sub = "auto-restart" THEN BitOr(s2, SystemDStatusRestarting)
                        ELSE IF sub = "dead" THEN BitOr(s2, SystemdDStatusDead)
                        ELSE BitOr(s2, SystemDStatusUnknown)
              IN [status |-> s3, err |-> ""]

detectKubeletInitialized_AnyError(host, res) ==
    IF res.err # "" THEN [host |-> host, err |-> res.err]
    ELSE IF res.exitcode = 0
         THEN [host |-> [host EXCEPT !.Kubelet.Status = BitOr(@, KubeletInitialized)],
               err |-> ""]
         ELSE [host |-> host, err |-> ""]

detectKubeletInitialized_NegativeOnly(host, res) ==
    IF res.err # "" /\ res.exitcode < 0 THEN [host |-> host, err |-> res.err]
    ELSE IF res.exitcode = 0
         THEN [host |-> [host EXCEPT !.Kubelet.Status = BitOr(@, KubeletInitialized)],
               err |-> ""]
         ELSE [host |-> host, err |-> ""]

\* detectKubeletInitialized(host, conn), res being what conn.Exec returned
detectKubeletInitialized(host, res) ==
    IF res.err # "" /\ res.exitcode <= 0 THEN [host |-> host, err |-> res.err]
    ELSE IF res.exitcode = 0
         THEN [host |-> [host EXCEPT !.Kubelet.Status = BitOr(@, KubeletInitialized)],
               err |-> ""]
         ELSE [host |-> host, err |-> ""]

(***************************************************************************)
(* Versions.  The output of a version command is a sequence of tokens;     *)
(* " " and "\n" are white space.                                           *)
(***************************************************************************)
IsSpace(tok) == tok \in {" ", "\n"}

RECURSIVE TrimLeft(_)
TrimLeft(out) ==
    IF Len(out) > 0 /\ IsSpace(Head(out)) THEN TrimLeft(Tail(out)) ELSE out

RECURSIVE TrimRight(_)
TrimRight(out) ==
    IF Len(out) > 0 /\ IsSpace(out[Len(out)])
    THEN TrimRight(SubSeq(out, 1, Len(out) - 1)) ELSE out

\* strings.TrimSpace(out)
TrimSpace(out) == TrimRight(TrimLeft(out))

\* the version strings semver.NewVersion accepts, with the String() of the
\* version each denotes: a missing patch is 0, a leading "v" and the leading
\* zeros of a segment are dropped
SemverTable == [x \in {"1.17.3", "18.09.7", "v1.16"} |->
                 IF x = "v1.16" THEN "1.16.0"
                 ELSE IF x = "18.09.7" THEN "18.9.7"
                 ELSE x]

\* semver.NewVersion(s): the parsed version, or an error
NewVersion(s) ==
    IF Len(s) = 1 /\ s[1] \in DOMAIN SemverTable
    THEN [ver |-> SemverTable[s[1]], err |-> ""]
    ELSE [ver |-> Nil, err |-> "semver"]

\* &semver.Version{}
ZeroVersion == "0.0.0"

\* state.Host{Config: &s.Cluster.ControlPlane.Hosts[i]}
NewHost(i) ==
    [Config |-> i,
     ContainerRuntime |-> [Status |-> 0, Version |-> Nil],
     Kubelet |-> [Status |-> 0, Version |-> Nil],
     APIServer |-> [Status |-> 0],
     Etcd |-> [Status |-> 0],
     IsInCluster |-> FALSE]

\* the version command detectDockerStatusVersion executes on os, "" when
\* it executes none
DockerVersionCmd(os) ==
    IF os \in {"centos", "rhel"} THEN "dockerVersionRPM"
    ELSE IF os = "ubuntu" THEN "dockerVersionDPKG"
    ELSE ""

\* detectDockerStatusVersion(host, conn) up to its second conn.Exec: os is
\* host.Config.OperatingSystem, r1 what the status command returns; more
\* tells whether the version command is executed next
detectDockerStatus(host, os, r1) ==
    LET st == systemdStatus(r1)
        h1 == [host EXCEPT !.ContainerRuntime.Status = st.status]
        c1 == <<"systemctl show docker">>
    IN  IF st.err # "" THEN [host |-> h1, err |-> st.err, cmds |-> c1, more |-> FALSE]
        ELSE IF ~HasFlag(st.status, ComponentInstalled)
        THEN [host |-> h1, err |-> "", cmds |-> c1, more |-> FALSE]
        ELSE IF os \in {"flatcar", "coreos"}
        THEN [host |-> [h1 EXCEPT !.ContainerRuntime.Version = ZeroVersion],
              err |-> "", cmds |-> c1, more |-> FALSE]
        ELSE IF DockerVersionCmd(os) = ""
        THEN [host |-> h1, err |-> "", cmds |-> c1, more |-> FALSE]
        ELSE [host |-> h1, err |-> "", cmds |-> c1, more |-> TRUE]

\* detectDockerStatusVersion(host, conn) from its second conn.Exec on, r2
\* being what the version command returns
detectDockerVersion(host, os, r2) ==
    LET c2 == <<DockerVersionCmd(os)>>
        v == NewVersion(TrimSpace(r2.out))
    IN  IF r2.err # "" THEN [host |-> host, err |-> r2.err, cmds |-> c2]
        ELSE IF v.err # "" THEN [host |-> host, err |-> v.err, cmds |-> c2]
        ELSE [host |-> [host EXCEPT !.ContainerRuntime.Version = v.ver],
              err |-> "", cmds |-> c2]

\* detectDockerStatusVersion(host, conn) as a whole: r1 and r2 what the first
\* and the second conn.Exec return
detectDockerStatusVersion(host, os, r1, r2) ==
    LET st == systemdStatus(r1)
        h1 == [host EXCEPT !.ContainerRuntime.Status = st.status]
        c1 == <<"systemctl show docker">>
    IN  IF st.err # "" THEN [host |-> h1, err |-> st.err, cmds |-> c1]
        ELSE IF ~HasFlag(st.status, ComponentInstalled)
        THEN [host |-> h1, err |-> "", cmds |-> c1]
        ELSE IF os \in {"flatcar", "coreos"}
        THEN [host |-> [h1 EXCEPT !.ContainerRuntime.Version = ZeroVersion],
              err |-> "", cmds |-> c1]
        ELSE IF os \notin {"centos", "rhel", "ubuntu"}
        THEN [host |-> h1, err |-> "", cmds |-> c1]
        ELSE LET cmd == IF os = "ubuntu" THEN "dockerVersionDPKG" ELSE "dockerVersionRPM"
                 c2 == Append(c1, cmd)
                 v == NewVersion(TrimSpace(r2.out))
             IN  IF r2.err # "" THEN [host |-> h1, err |-> r2.err, cmds |-> c2]
                 ELSE IF v.err # "" THEN [host |-> h1, err |-> v.err, cmds |-> c2]
                 ELSE [host |-> [h1 EXCEPT !.ContainerRuntime.Version = v.ver],
                       err |-> "", cmds |-> c2]

detectKubeletStatusVersion_LikeDocker(host, os, r1, r2) ==
    LET st == systemdStatus(r1)
        h1 == [host EXCEPT !.Kubelet.Status = st.status]
        c1 == <<"systemctl show kubelet">>
    IN  IF st.err # "" THEN [host |-> h1, err |-> st.err, cmds |-> c1]
        ELSE IF ~HasFlag(st.status, ComponentInstalled)
        THEN [host |-> h1, err |-> "", cmds |-> c1]
        ELSE IF os \in {"flatcar", "coreos"}
        THEN [host |-> [h1 EXCEPT !.Kubelet.Version = ZeroVersion],
              err |-> "", cmds |-> c1]
        ELSE IF os \notin {"centos", "rhel", "ubuntu"}
        THEN [host |-> h1, err |-> "", cmds |-> c1]
        ELSE LET cmd == IF os = "ubuntu" THEN "kubeletVersionDPKG" ELSE "kubeletVersionRPM"
                 c2 == Append(c1, cmd)
                 v == NewVersion(TrimSpace(r2.out))
             IN  IF r2.err # "" THEN [host |-> h1, err |-> r2.err, cmds |-> c2]
                 ELSE IF v.err # "" THEN [host |-> h1, err |-> v.err, cmds |-> c2]
                 ELSE [host |-> [h1 EXCEPT !.Kubelet.Version = v.ver],
                       err |-> "", cmds |-> c2]

\* the version command detectKubeletStatusVersion executes on os, "" when
\* it executes none
KubeletVersionCmd(os) ==
    IF os \in {"centos", "rhel"} THEN "kubeletVersionRPM"
    ELSE IF os = "ubuntu" THEN "kubeletVersionDPKG"
    ELSE IF os \in {"flatcar", "coreos"} THEN "kubeletVersionCLI"
    ELSE ""

\* detectKubeletStatusVersion(host, conn) up to its second conn.Exec
detectKubeletStatus(host, os, r1) ==
    LET st == systemdStatus(r1)
        h1 == [host EXCEPT !.Kubelet.Status = st.status]
        c1 == <<"systemctl show kubelet">>
    IN  IF st.err # "" THEN [host |-> h1, err |-> st.err, cmds |-> c1, more |-> FALSE]
        ELSE IF ~HasFlag(st.status, ComponentInstalled)
        THEN [host |-> h1, err |-> "", cmds |-> c1, more |-> FALSE]
        ELSE IF KubeletVersionCmd(os) = ""
        THEN [host |-> h1, err |-> "", cmds |-> c1, more |-> FALSE]
        ELSE [host |-> h1, err |-> "", cmds |-> c1, more |-> TRUE]

\* detectKubeletStatusVersion(host, conn) from its second conn.Exec on
detectKubeletVersion(host, os, r2) ==
    LET c2 == <<KubeletVersionCmd(os)>>
        v == NewVersion(TrimSpace(r2.out))
    IN  IF r2.err # "" THEN [host |-> host, err |-> r2.err, cmds |-> c2]
        ELSE IF v.err # "" THEN [host |-> host, err |-> v.err, cmds |-> c2]
        ELSE [host |-> [host EXCEPT !.Kubelet.Version = v.ver],
              err |-> "", cmds |-> c2]

\* detectKubeletStatusVersion(host, conn) as a whole
detectKubeletStatusVersion(host, os, r1, r2) ==
    LET st == systemdStatus(r1)
        h1 == [host EXCEPT !.Kubelet.Status = st.status]
        c1 == <<"systemctl show kubelet">>
    IN  IF st.err # "" THEN [host |-> h1, err |-> st.err, cmds |-> c1]
        ELSE IF ~HasFlag(st.status, ComponentInstalled)
        THEN [host |-> h1, err |-> "", cmds |-> c1]
        ELSE IF os \notin {"centos", "rhel", "ubuntu", "flatcar", "coreos"}
        THEN [host |-> h1, err |-> "", cmds |-> c1]
        ELSE LET cmd == IF os = "ubuntu" THEN "kubeletVersionDPKG"
                        ELSE IF os \in {"centos", "rhel"} THEN "kubeletVersionRPM"
                        ELSE "kubeletVersionCLI"
                 c2 == Append(c1, cmd)
                 v == NewVersion(TrimSpace(r2.out))
             IN  IF r2.err # "" THEN [host |-> h1, err |-> r2.err, cmds |-> c2]
                 ELSE IF v.err # "" THEN [host |-> h1, err |-> v.err, cmds |-> c2]
                 ELSE [host |-> [h1 EXCEPT !.Kubelet.Version = v.ver],
                       err |-> "", cmds |-> c2]

(***************************************************************************)
(* The control plane: configuration, aggregate and the provisioned         *)
(* predicate.                                                              *)
(***************************************************************************)
\* the operating system of the i-th host of the inventory
OSPool == <<"ubuntu", "flatcar", "centos", "unknown", "coreos", "rhel">>

N == Len(hosts)

Hostnames == {hosts[i].Hostname : i \in 1..N}

\* host.Config.Hostname (Config points into s.Cluster.ControlPlane.Hosts)
HostnameOf(h) == hosts[h.Config].Hostname

\* state.Cluster.IsProvisioned: some host has both the container runtime and
\* the kubelet installed
IsProvisioned(cp) ==
    \E i \in 1..Len(cp) :
        /\ HasFlag(cp[i].ContainerRuntime.Status, ComponentInstalled)
        /\ HasFlag(cp[i].Kubelet.Status, ComponentInstalled)

(***************************************************************************)
(* What the remote hosts and the external collaborators may answer.        *)
(***************************************************************************)
Absent == "<absent>"

\* the text `systemctl show` prints for the three properties; a property
\* valued Absent has no line, junk adds a line that is no key/value pair
StatusText(load, active, sub, sep, junk) ==
    (IF load = Absent THEN <<>> ELSE <<Line("LoadState", sep, load)>>)
    \o (IF active = Absent THEN <<>> ELSE <<Line("ActiveState", sep, active)>>)
    \o (IF sub = Absent THEN <<>> ELSE <<Line("SubState", sep, sub)>>)
    \o (IF junk THEN <<Line("Failed to connect to bus", "", "")>> ELSE <<>>)

LoadValues == {"loaded", "not-found", "masked", Absent}
ActiveValues == {"active", "activating", "inactive", "failed", Absent}
SubValues == {"running", "auto-restart", "dead", "exited", Absent}

\* the answers of a host to the status command in a concurrent cycle
StatusExecs ==
    { ExecResult(StatusText("loaded", "active", "running", "=", FALSE), 0, ""),
      ExecResult(StatusText("not-found", "inactive", "dead", "=", FALSE), 0, ""),
      ExecResult(<<>>, -1, "ssh") }

\* the answers of a host to a version command in a concurrent cycle
VersionExecs ==
    { ExecResult(<<"1.17.3", "\n">>, 0, ""),
      ExecResult(<<"none">>, 0, "") }

\* every (error, exit code) pair the marker-file command may return
InitExecs ==
    { ExecResult(<<>>, code, e) : code \in -1..MaxExit, e \in {"", "ssh"} }

(***************************************************************************)
(* Unit harness: a pure function applied to an input drawn by Init.        *)
(***************************************************************************)
MainIdle ==
    /\ hosts = <<[Hostname |-> HostNamePool[1], OperatingSystem |-> OSPool[1],
                  IsLeader |-> FALSE]>>
    /\ live = <<>>
    /\ lock = {}
    /\ pc = "unit"
    /\ tpc = <<>>
    /\ th = <<>>
    /\ tidx = <<>>
    /\ terr = <<>>
    /\ texec = <<>>
    /\ taskErr = ""
    /\ err = ""
    /\ ci = 0
    /\ leaderElected = FALSE
    /\ calls = <<>>
    /\ nodes = <<>>
    /\ hostsToBeProvisioned = {}
    /\ nodesToBeRemoved = {}

\* every variable of the investigation but pc
restVars == <<hosts, live, lock, tpc, th, tidx, terr, texec, taskErr, err, ci,
              leaderElected, calls, nodes, hostsToBeProvisioned, nodesToBeRemoved>>

\* the status command answers with any combination of the three properties
InitDecode ==
    /\ MainIdle
    /\ uIn \in [load : LoadValues, active : ActiveValues, sub : SubValues,
                sep : {"=", ": "}, junk : BOOLEAN, err : {"", "ssh"}]
    /\ uOut = Nil

\* systemdStatus is applied to the answer
Decode ==
    /\ pc = "unit"
    /\ pc' = "applied"
    /\ uOut' = systemdStatus(
                  ExecResult(StatusText(uIn.load, uIn.active, uIn.sub, uIn.sep, uIn.junk),
                             IF uIn.err = "" THEN 0 ELSE -1, uIn.err))
    /\ UNCHANGED <<restVars, uIn>>

NextDecode == Decode

SpecDecode == InitDecode /\ [][NextDecode]_vars

\* a host whose kubelet status was just decoded, and any answer of the
\* marker-file command
InitInitialized ==
    /\ MainIdle
    /\ \E load \in {"loaded", "not-found"}, active \in {"active", "inactive"},
          sub \in {"running", "auto-restart", "dead", "exited"}, r \in InitExecs :
          LET st == systemdStatus(ExecResult(StatusText(load, active, sub, "=", FALSE), 0, ""))
          IN uIn = [host |-> [NewHost(1) EXCEPT !.Kubelet.Status = st.status], res |-> r]
    /\ uOut = Nil

\* detectKubeletInitialized is applied to the host and the answer
Initialized ==
    /\ pc = "unit"
    /\ pc' = "applied"
    /\ uOut' = detectKubeletInitialized(uIn.host, uIn.res)
    /\ UNCHANGED <<restVars, uIn>>

NextInitialized == Initialized

SpecInitialized == InitInitialized /\ [][NextInitialized]_vars

(***************************************************************************)
(* runProbes and the parallel investigateHost tasks.                       *)
(***************************************************************************)
unitVars == <<uIn, uOut>>

clusterVars == <<ci, leaderElected, calls, nodes, hostsToBeProvisioned, nodesToBeRemoved>>

taskVars == <<tpc, th, tidx, terr, texec, taskErr>>

\* the desired configuration: n hosts of the inventory, any leader flags
ConfigOf(n, leader) ==
    [i \in 1..n |-> [Hostname |-> HostNamePool[i], OperatingSystem |-> OSPool[i],
                     IsLeader |-> leader[i]]]

Init ==
    /\ \E n \in 1..MaxProbeHosts : \E leader \in [1..n -> BOOLEAN] :
           hosts = ConfigOf(n, leader)
    /\ live = <<>>
    /\ lock = {}
    /\ pc = "start"
    /\ tpc = <<>>
    /\ th = <<>>
    /\ tidx = <<>>
    /\ terr = <<>>
    /\ texec = <<>>
    /\ taskErr = ""
    /\ err = ""
    /\ ci = 0
    /\ leaderElected = FALSE
    /\ calls = <<>>
    /\ nodes = <<>>
    /\ hostsToBeProvisioned = {}
    /\ nodesToBeRemoved = {}
    /\ uIn = Nil
    /\ uOut = Nil

\* runProbes up to the launch of the tasks: the expected version is parsed,
\* the aggregate is built with one entry per configured host, and
\* RunTaskOnControlPlane starts one investigateHost task per host
RunProbesStart ==
    /\ pc = "start"
    /\ \E version \in {<<"1.17.3">>, <<"latest">>} :
          IF NewVersion(version).err # ""
          THEN /\ err' = NewVersion(version).err
               /\ pc' = "done"
               /\ UNCHANGED <<live, tpc, th, tidx, terr, texec>>
          ELSE /\ live' = [i \in 1..N |-> NewHost(i)]
               /\ tpc' = [i \in 1..N |-> "lock"]
               /\ th' = [i \in 1..N |-> <<>>]
               /\ tidx' = [i \in 1..N |-> 0]
               /\ terr' = [i \in 1..N |-> ""]
               /\ texec' = [i \in 1..N |-> <<>>]
               /\ pc' = "probing"
               /\ UNCHANGED err
    /\ UNCHANGED <<hosts, lock, taskErr, clusterVars, unitVars>>

\* the index of the first entry whose hostname is name, 0 when there is none
FindEntry(cp, name) ==
    IF \E i \in 1..Len(cp) : HostnameOf(cp[i]) = name
    THEN CHOOSE i \in 1..Len(cp) :
            /\ HostnameOf(cp[i]) = name
            /\ \A j \in 1..(i - 1) : HostnameOf(cp[j]) # name
    ELSE 0

\* a task returns e: RunTaskOnControlPlane retains the first error
Retain(e) == IF taskErr = "" THEN e ELSE taskErr

\* investigateHost: s.LiveCluster.Lock.Lock(), first time
TaskLock(t) ==
    /\ tpc[t] = "lock"
    /\ lock = {}
    /\ lock' = {t}
    /\ tpc' = [tpc EXCEPT ![t] = "find"]
    /\ UNCHANGED <<hosts, live, pc, th, tidx, terr, texec, taskErr, err,
                   clusterVars, unitVars>>

TaskFind_LastIndex(t) ==
    /\ tpc[t] = "find"
    /\ lock = {t}
    /\ LET i == FindEntry(live, hosts[t].Hostname) IN
         IF i = 0
         THEN /\ terr' = [terr EXCEPT ![t] = "didn't matched"]
              /\ taskErr' = Retain("didn't matched")
              /\ tpc' = [tpc EXCEPT ![t] = "failed"]
              /\ UNCHANGED <<th, tidx>>
         ELSE /\ th' = [th EXCEPT ![t] = <<live[i]>>]
              /\ tidx' = [tidx EXCEPT ![t] = Len(live)]
              /\ tpc' = [tpc EXCEPT ![t] = "docker"]
              /\ UNCHANGED <<terr, taskErr>>
    /\ lock' = {}
    /\ UNCHANGED <<hosts, live, pc, texec, err, clusterVars, unitVars>>

TaskFind_NoUnlock(t) ==
    /\ tpc[t] = "find"
    /\ lock = {t}
    /\ LET i == FindEntry(live, hosts[t].Hostname) IN
         IF i = 0
         THEN /\ terr' = [terr EXCEPT ![t] = "didn't matched"]
              /\ taskErr' = Retain("didn't matched")
              /\ tpc' = [tpc EXCEPT ![t] = "failed"]
              /\ UNCHANGED <<th, tidx>>
         ELSE /\ th' = [th EXCEPT ![t] = <<live[i]>>]
              /\ tidx' = [tidx EXCEPT ![t] = i]
              /\ tpc' = [tpc EXCEPT ![t] = "docker"]
              /\ UNCHANGED <<terr, taskErr>>
    /\ UNCHANGED <<hosts, live, lock, pc, texec, err, clusterVars, unitVars>>

\* investigateHost: the entry of the task's node is looked up and copied,
\* the lock is released; without an entry the task fails
TaskFind(t) ==
    /\ tpc[t] = "find"
    /\ lock = {t}
    /\ LET i == FindEntry(live, hosts[t].Hostname) IN
         IF i = 0
         THEN /\ terr' = [terr EXCEPT ![t] = "didn't matched"]
              /\ taskErr' = Retain("didn't matched")
              /\ tpc' = [tpc EXCEPT ![t] = "failed"]
              /\ UNCHANGED <<th, tidx>>
         ELSE /\ th' = [th EXCEPT ![t] = <<live[i]>>]
              /\ tidx' = [tidx EXCEPT ![t] = i]
              /\ tpc' = [tpc EXCEPT ![t] = "docker"]
              /\ UNCHANGED <<terr, taskErr>>
    /\ lock' = {}
    /\ UNCHANGED <<hosts, live, pc, texec, err, clusterVars, unitVars>>

AfterCheck_InPlace(t, r, next) ==
    /\ th' = [th EXCEPT ![t] = <<r.host>>]
    /\ live' = [live EXCEPT ![tidx[t]] = r.host]
    /\ texec' = [texec EXCEPT ![t] = @ \o r.cmds]
    /\ IF r.err # ""
       THEN /\ terr' = [terr EXCEPT ![t] = r.err]
            /\ taskErr' = Retain(r.err)
            /\ tpc' = [tpc EXCEPT ![t] = "failed"]
       ELSE /\ tpc' = [tpc EXCEPT ![t] = next]
            /\ UNCHANGED <<terr, taskErr>>
    /\ UNCHANGED <<hosts, lock, pc, tidx, err, clusterVars, unitVars>>

AfterCheck_Continue(t, r, next) ==
    /\ th' = [th EXCEPT ![t] = <<r.host>>]
    /\ texec' = [texec EXCEPT ![t] = @ \o r.cmds]
    /\ IF r.err # ""
       THEN /\ terr' = [terr EXCEPT ![t] = r.err]
            /\ taskErr' = Retain(r.err)
            /\ tpc' = [tpc EXCEPT ![t] = IF next = "relock" THEN "failed" ELSE next]
       ELSE /\ tpc' = [tpc EXCEPT ![t] = next]
            /\ UNCHANGED <<terr, taskErr>>
    /\ UNCHANGED <<hosts, live, lock, pc, tidx, err, clusterVars, unitVars>>

\* a check of the task returned r: the copy and the connection's log are
\* updated, and the task goes on to step next or returns the check's error
AfterCheck(t, r, next) ==
    /\ th' = [th EXCEPT ![t] = <<r.host>>]
    /\ texec' = [texec EXCEPT ![t] = @ \o r.cmds]
    /\ IF r.err # ""
       THEN /\ terr' = [terr EXCEPT ![t] = r.err]
            /\ taskErr' = Retain(r.err)
            /\ tpc' = [tpc EXCEPT ![t] = "failed"]
       ELSE /\ tpc' = [tpc EXCEPT ![t] = next]
            /\ UNCHANGED <<terr, taskErr>>
    /\ UNCHANGED <<hosts, live, lock, pc, tidx, err, clusterVars, unitVars>>

\* the outcome of a check's step without the field that tells what follows
Outcome(a) == [host |-> a.host, err |-> a.err, cmds |-> a.cmds]

\* investigateHost: detectDockerStatusVersion on the copy, lock not held, up
\* to the answer of the status command
TaskDocker(t) ==
    /\ tpc[t] = "docker"
    /\ \E r1 \in StatusExecs :
          LET a == detectDockerStatus(th[t][1], hosts[th[t][1].Config].OperatingSystem, r1)
          IN AfterCheck(t, Outcome(a), IF a.more THEN "dockerVersion" ELSE "kubelet")

\* investigateHost: detectDockerStatusVersion from the answer of the version
\* command on
TaskDockerVersion(t) ==
    /\ tpc[t] = "dockerVersion"
    /\ \E r2 \in VersionExecs :
          AfterCheck(t, detectDockerVersion(th[t][1],
                            hosts[th[t][1].Config].OperatingSystem, r2), "kubelet")

\* investigateHost: detectKubeletStatusVersion on the copy, up to the answer
\* of the status command
TaskKubelet(t) ==
    /\ tpc[t] = "kubelet"
    /\ \E r1 \in StatusExecs :
          LET a == detectKubeletStatus(th[t][1], hosts[th[t][1].Config].OperatingSystem, r1)
          IN AfterCheck(t, Outcome(a), IF a.more THEN "kubeletVersion" ELSE "initialized")

\* investigateHost: detectKubeletStatusVersion from the answer of the
\* version command on
TaskKubeletVersion(t) ==
    /\ tpc[t] = "kubeletVersion"
    /\ \E r2 \in VersionExecs :
          AfterCheck(t, detectKubeletVersion(th[t][1],
                            hosts[th[t][1].Config].OperatingSystem, r2), "initialized")

\* investigateHost: detectKubeletInitialized on the copy
TaskInitialized(t) ==
    /\ tpc[t] = "initialized"
    /\ \E r \in InitExecs :
          LET d == detectKubeletInitialized(th[t][1], r)
          IN AfterCheck(t, [host |-> d.host, err |-> d.err,
                            cmds |-> <<"kubeletInitializedCMD">>], "relock")

\* investigateHost: s.LiveCluster.Lock.Lock(), second time
TaskRelock(t) ==
    /\ tpc[t] = "relock"
    /\ lock = {}
    /\ lock' = {t}
    /\ tpc' = [tpc EXCEPT ![t] = "write"]
    /\ UNCHANGED <<hosts, live, pc, th, tidx, terr, texec, taskErr, err,
                   clusterVars, unitVars>>

WriteBack_First(cp, idx, h) == [cp EXCEPT ![1] = h]

\* s.LiveCluster.ControlPlane[idx] = *h
WriteBack(cp, idx, h) == [cp EXCEPT ![idx] = h]

\* investigateHost: the copy is written back at idx, Unlock(), return nil
TaskWrite(t) ==
    /\ tpc[t] = "write"
    /\ lock = {t}
    /\ live' = WriteBack(live, tidx[t], th[t][1])
    /\ lock' = {}
    /\ tpc' = [tpc EXCEPT ![t] = "done"]
    /\ UNCHANGED <<hosts, pc, th, tidx, terr, texec, taskErr, err,
                   clusterVars, unitVars>>

TasksFinished == \A t \in 1..Len(tpc) : tpc[t] \in {"done", "failed"}

Join_NoWait ==
    /\ pc = "probing"
    /\ pc' = "joined"
    /\ UNCHANGED <<hosts, live, lock, taskVars, err, clusterVars, unitVars>>

\* RunTaskOnControlPlane returns once every task has returned
Join ==
    /\ pc = "probing"
    /\ TasksFinished
    /\ pc' = "joined"
    /\ UNCHANGED <<hosts, live, lock, taskVars, err, clusterVars, unitVars>>

RunProbesAfter_Always ==
    /\ pc = "joined"
    /\ IF taskErr # "" THEN pc' = "done" /\ err' = taskErr
       ELSE pc' = "investigate" /\ UNCHANGED err
    /\ UNCHANGED <<hosts, live, lock, taskVars, clusterVars, unitVars>>

\* runProbes after the tasks: a task error is returned, a provisioned
\* cluster is investigated, anything else is a success
RunProbesAfter ==
    /\ pc = "joined"
    /\ IF taskErr # "" THEN pc' = "done" /\ err' = taskErr
       ELSE IF IsProvisioned(live) THEN pc' = "investigate" /\ UNCHANGED err
       ELSE pc' = "done" /\ err' = ""
    /\ UNCHANGED <<hosts, live, lock, taskVars, clusterVars, unitVars>>

(***************************************************************************)
(* investigateCluster.                                                     *)
(***************************************************************************)
\* what etcdstatus.Get may return: nil with an error, or a status
EtcdAnswers ==
    {[ok |-> FALSE, Member |-> FALSE, Health |-> FALSE]}
    \cup {[ok |-> TRUE, Member |-> m, Health |-> h] : m \in BOOLEAN, h \in BOOLEAN}

\* the answers drawn in a full concurrent cycle
EtcdAnswersCycle ==
    {[ok |-> FALSE, Member |-> FALSE, Health |-> FALSE],
     [ok |-> TRUE, Member |-> TRUE, Health |-> TRUE]}

\* the names a node list is drawn from: the configured hosts and a stray node
NodeNamePool == [i \in 1..(N + 1) |-> IF i <= N THEN hosts[i].Hostname ELSE StrayNode]

\* nodes.Items for a set of names, in the order of the pool
NodeItems(names) == SelectSeq(NodeNamePool, LAMBDA x : x \in names)

\* every node list the Kubernetes API may return
NodeLists == {NodeItems(names) : names \in SUBSET (Hostnames \cup {StrayNode})}

\* the node lists drawn in a full concurrent cycle
NodeListsCycle == {NodeItems(Hostnames), NodeItems((Hostnames \ {hosts[1].Hostname}) \cup {StrayNode})}

Called(name) == \E k \in 1..Len(calls) : calls[k].call = name

NotProvisionedErr == "unable to investigate non-provisioned cluster"

QuorumErr == "leader not elected, quorum mostly like lost"

ClusterEnter_NoClear ==
    /\ pc = "investigate"
    /\ IF ~IsProvisioned(live)
       THEN /\ err' = NotProvisionedErr
            /\ pc' = "done"
            /\ UNCHANGED <<lock, ci, leaderElected>>
       ELSE /\ lock = {}
            /\ lock' = {0}
            /\ leaderElected' = FALSE
            /\ ci' = 1
            /\ pc' = "apiserver"
            /\ UNCHANGED err
    /\ UNCHANGED <<hosts, live, taskVars, calls, nodes, hostsToBeProvisioned,
                   nodesToBeRemoved, unitVars>>

\* investigateCluster: the provisioned check, then Lock() and the loop that
\* clears every leader flag
ClusterEnter ==
    /\ pc = "investigate"
    /\ IF ~IsProvisioned(live)
       THEN /\ err' = NotProvisionedErr
            /\ pc' = "done"
            /\ UNCHANGED <<hosts, lock, ci, leaderElected>>
       ELSE /\ lock = {}
            /\ lock' = {0}
            /\ hosts' = [i \in 1..N |->
                          IF \E k \in 1..Len(live) : live[k].Config = i
                          THEN [hosts[i] EXCEPT !.IsLeader = FALSE] ELSE hosts[i]]
            /\ leaderElected' = FALSE
            /\ ci' = 1
            /\ pc' = "apiserver"
            /\ UNCHANGED err
    /\ UNCHANGED <<live, taskVars, calls, nodes, hostsToBeProvisioned,
                   nodesToBeRemoved, unitVars>>

ApiServerGet_LeaderOnly ==
    /\ pc = "apiserver"
    /\ ci <= Len(live)
    /\ \E health \in BOOLEAN :
          /\ calls' = Append(calls, [call |-> "apiserverstatus.Get", host |-> ci,
                                     answer |-> health])
          /\ IF health /\ ~leaderElected
             THEN /\ live' = [live EXCEPT ![ci].APIServer.Status = BitOr(@, PodRunning)]
                  /\ hosts' = [hosts EXCEPT ![live[ci].Config].IsLeader = TRUE]
                  /\ leaderElected' = TRUE
             ELSE UNCHANGED <<live, hosts, leaderElected>>
    /\ ci' = ci + 1
    /\ UNCHANGED <<lock, pc, taskVars, err, nodes, hostsToBeProvisioned,
                   nodesToBeRemoved, unitVars>>

ApiServerGet_LastWins ==
    /\ pc = "apiserver"
    /\ ci <= Len(live)
    /\ \E health \in BOOLEAN :
          /\ calls' = Append(calls, [call |-> "apiserverstatus.Get", host |-> ci,
                                     answer |-> health])
          /\ IF health
             THEN /\ live' = [live EXCEPT ![ci].APIServer.Status = BitOr(@, PodRunning)]
                  /\ hosts' = [i \in 1..N |->
                                 [hosts[i] EXCEPT !.IsLeader = (i = live[ci].Config)]]
                  /\ leaderElected' = TRUE
             ELSE UNCHANGED <<live, hosts, leaderElected>>
    /\ ci' = ci + 1
    /\ UNCHANGED <<lock, pc, taskVars, err, nodes, hostsToBeProvisioned,
                   nodesToBeRemoved, unitVars>>

\* investigateCluster: one turn of the election loop, apiserverstatus.Get
\* answering health for host ci
ApiServerGet ==
    /\ pc = "apiserver"
    /\ ci <= Len(live)
    /\ \E health \in BOOLEAN :
          /\ calls' = Append(calls, [call |-> "apiserverstatus.Get", host |-> ci,
                                     answer |-> health])
          /\ IF health
             THEN /\ live' = [live EXCEPT ![ci].APIServer.Status = BitOr(@, PodRunning)]
                  /\ IF ~leaderElected
                     THEN /\ hosts' = [hosts EXCEPT ![live[ci].Config].IsLeader = TRUE]
                          /\ leaderElected' = TRUE
                     ELSE UNCHANGED <<hosts, leaderElected>>
             ELSE UNCHANGED <<live, hosts, leaderElected>>
    /\ ci' = ci + 1
    /\ UNCHANGED <<lock, pc, taskVars, err, nodes, hostsToBeProvisioned,
                   nodesToBeRemoved, unitVars>>

ElectionEnd_Proceed ==
    /\ pc = "apiserver"
    /\ ci > Len(live)
    /\ pc' = "memberlist"
    /\ UNCHANGED <<hosts, live, lock, taskVars, err, clusterVars, unitVars>>

\* investigateCluster: after the election loop; without a leader it returns
\* the quorum error
ElectionEnd ==
    /\ pc = "apiserver"
    /\ ci > Len(live)
    /\ IF ~leaderElected
       THEN pc' = "done" /\ err' = QuorumErr
       ELSE pc' = "memberlist" /\ UNCHANGED err
    /\ UNCHANGED <<hosts, live, lock, taskVars, clusterVars, unitVars>>

\* investigateCluster: etcdstatus.MemberList, whose error is returned
MemberList ==
    /\ pc = "memberlist"
    /\ \E ok \in BOOLEAN :
          /\ calls' = Append(calls, [call |-> "etcdstatus.MemberList", host |-> 0,
                                     answer |-> ok])
          /\ IF ok THEN pc' = "etcd" /\ ci' = 1 /\ UNCHANGED err
             ELSE pc' = "done" /\ err' = "etcd member list" /\ UNCHANGED ci
    /\ UNCHANGED <<hosts, live, lock, taskVars, leaderElected, nodes,
                   hostsToBeProvisioned, nodesToBeRemoved, unitVars>>

EtcdGet_AbortOnError(answers) ==
    /\ pc = "etcd"
    /\ ci <= Len(live)
    /\ \E a \in answers :
          /\ calls' = Append(calls, [call |-> "etcdstatus.Get", host |-> ci, answer |-> a])
          /\ IF a.ok /\ a.Member /\ a.Health
             THEN live' = [live EXCEPT ![ci].Etcd.Status = BitOr(@, PodRunning)]
             ELSE UNCHANGED live
          /\ IF a.ok THEN ci' = ci + 1 /\ UNCHANGED <<pc, err>>
             ELSE pc' = "done" /\ err' = "etcd status" /\ UNCHANGED ci
    /\ UNCHANGED <<hosts, lock, taskVars, leaderElected, nodes,
                   hostsToBeProvisioned, nodesToBeRemoved, unitVars>>

\* investigateCluster: one turn of the etcd loop, etcdstatus.Get answering
\* for host ci with one of answers
EtcdGet(answers) ==
    /\ pc = "etcd"
    /\ ci <= Len(live)
    /\ \E a \in answers :
          /\ calls' = Append(calls, [call |-> "etcdstatus.Get", host |-> ci, answer |-> a])
          /\ IF a.ok /\ a.Member /\ a.Health
             THEN live' = [live EXCEPT ![ci].Etcd.Status = BitOr(@, PodRunning)]
             ELSE UNCHANGED live
    /\ ci' = ci + 1
    /\ UNCHANGED <<hosts, lock, pc, taskVars, err, leaderElected, nodes,
                   hostsToBeProvisioned, nodesToBeRemoved, unitVars>>

\* investigateCluster: after the etcd loop, Unlock()
EtcdEnd ==
    /\ pc = "etcd"
    /\ ci > Len(live)
    /\ lock' = {}
    /\ pc' = "client"
    /\ UNCHANGED <<hosts, live, taskVars, err, clusterVars, unitVars>>

\* investigateCluster: the client is built when there is none yet; the
\* error of kubeconfig.BuildKubernetesClientset is returned
BuildClient ==
    /\ pc = "client"
    /\ \E have \in BOOLEAN, ok \in BOOLEAN :
          IF have
          THEN pc' = "list" /\ UNCHANGED <<err, calls>>
          ELSE /\ calls' = Append(calls, [call |-> "kubeconfig.BuildKubernetesClientset",
                                          host |-> 0, answer |-> ok])
               /\ IF ok THEN pc' = "list" /\ UNCHANGED err
                  ELSE pc' = "done" /\ err' = "clientset"
    /\ UNCHANGED <<hosts, live, lock, taskVars, ci, leaderElected, nodes,
                   hostsToBeProvisioned, nodesToBeRemoved, unitVars>>

\* investigateCluster: s.DynamicClient.List answering with one of lists, or
\* with an error
ListNodes(lists) ==
    /\ pc = "list"
    /\ \/ \E items \in lists :
             /\ calls' = Append(calls, [call |-> "DynamicClient.List", host |-> 0,
                                        answer |-> TRUE])
             /\ nodes' = items
             /\ pc' = "mark"
             /\ UNCHANGED err
       \/ /\ calls' = Append(calls, [call |-> "DynamicClient.List", host |-> 0,
                                     answer |-> FALSE])
          /\ pc' = "done"
          /\ err' = "unable to list nodes"
          /\ UNCHANGED nodes
    /\ UNCHANGED <<hosts, live, lock, taskVars, ci, leaderElected,
                   hostsToBeProvisioned, nodesToBeRemoved, unitVars>>

\* knownHostsIdentities: the hostname of every entry of the aggregate
KnownHostsIdentities(cp) == {HostnameOf(cp[i]) : i \in 1..Len(cp)}

KnownNodesIdentities_OnlyKnown(items) ==
    {items[k] : k \in 1..Len(items)} \cap Hostnames

\* knownNodesIdentities: the name of every item of the node list
KnownNodesIdentities(items) == {items[k] : k \in 1..Len(items)}

MarkInCluster_AnyKnown(cp, items) ==
    [i \in 1..Len(cp) |->
        IF \E k \in 1..Len(items) : items[k] \in KnownHostsIdentities(cp)
        THEN [cp[i] EXCEPT !.IsInCluster = TRUE] ELSE cp[i]]

\* the aggregate after the loop over nodes.Items: an entry is in the cluster
\* once a node that is a known host bears its hostname
MarkInCluster(cp, items) ==
    [i \in 1..Len(cp) |->
        IF \E k \in 1..Len(items) :
              /\ items[k] \in KnownHostsIdentities(cp)
              /\ items[k] = HostnameOf(cp[i])
        THEN [cp[i] EXCEPT !.IsInCluster = TRUE] ELSE cp[i]]

\* investigateCluster: Lock() before the loop over the nodes
MarkLock ==
    /\ pc = "mark"
    /\ lock = {}
    /\ lock' = {0}
    /\ pc' = "marking"
    /\ UNCHANGED <<hosts, live, taskVars, err, clusterVars, unitVars>>

\* investigateCluster: the loop over the nodes, Unlock(), the two
\* differences, return nil
MarkNodes ==
    /\ pc = "marking"
    /\ lock = {0}
    /\ live' = MarkInCluster(live, nodes)
    /\ lock' = {}
    /\ hostsToBeProvisioned' = KnownHostsIdentities(live) \ KnownNodesIdentities(nodes)
    /\ nodesToBeRemoved' = KnownNodesIdentities(nodes) \ KnownHostsIdentities(live)
    /\ err' = ""
    /\ pc' = "done"
    /\ UNCHANGED <<hosts, taskVars, ci, leaderElected, calls, nodes, unitVars>>

(***************************************************************************)
(* The specifications.                                                     *)
(***************************************************************************)
Tasks == 1..Len(tpc)

\* a full cycle of runProbes
Next ==
    \/ RunProbesStart
    \/ \E t \in Tasks : TaskLock(t)
    \/ \E t \in Tasks : TaskFind(t)
    \/ \E t \in Tasks : TaskDocker(t)
    \/ \E t \in Tasks : TaskDockerVersion(t)
    \/ \E t \in Tasks : TaskKubelet(t)
    \/ \E t \in Tasks : TaskKubeletVersion(t)
    \/ \E t \in Tasks : TaskInitialized(t)
    \/ \E t \in Tasks : TaskRelock(t)
    \/ \E t \in Tasks : TaskWrite(t)
    \/ Join
    \/ RunProbesAfter
    \/ ClusterEnter
    \/ ApiServerGet
    \/ ElectionEnd
    \/ MemberList
    \/ EtcdGet(EtcdAnswersCycle)
    \/ EtcdEnd
    \/ BuildClient
    \/ ListNodes(NodeListsCycle)
    \/ MarkLock
    \/ MarkNodes

Spec == Init /\ [][Next]_vars

\* the three checks of investigateHost in their order, r1..r5 being what
\* the connection answers to the commands
investigateHostChecks(h, os, r1, r2, r3, r4, r5) ==
    LET d == detectDockerStatusVersion(h, os, r1, r2)
        k == detectKubeletStatusVersion(d.host, os, r3, r4)
        i == detectKubeletInitialized(k.host, r5)
    IN  IF d.err # "" THEN d
        ELSE IF k.err # "" THEN [k EXCEPT !.cmds = d.cmds \o @]
        ELSE [host |-> i.host, err |-> i.err,
              cmds |-> d.cmds \o k.cmds \o <<"kubeletInitializedCMD">>]

\* the operating systems of a host configuration
OSFamilies == {"ubuntu", "centos", "rhel", "flatcar", "coreos", "unknown"}

\* the answers to a version command in the probe of one host
VersionExecsProbe ==
    VersionExecs \cup {ExecResult(<<>>, -1, "ssh"), ExecResult(<<"18.09.7", "\n">>, 0, "")}

\* a host of any operating system, and any answers of its connection to the
\* commands of the three checks
InitProbe ==
    /\ MainIdle
    /\ uIn \in [os : OSFamilies, r1 : StatusExecs, r2 : VersionExecsProbe,
                r3 : StatusExecs, r4 : VersionExecsProbe,
                r5 : {ExecResult(<<>>, 0, ""), ExecResult(<<>>, 1, "exit"),
                      ExecResult(<<>>, -1, "ssh")}]
    /\ uOut = Nil

\* the three checks of investigateHost are applied to a fresh entry
Probe ==
    /\ pc = "unit"
    /\ pc' = "applied"
    /\ uOut' = investigateHostChecks(NewHost(1), uIn.os, uIn.r1, uIn.r2, uIn.r3,
                                     uIn.r4, uIn.r5)
    /\ UNCHANGED <<restVars, uIn>>

NextProbe == Probe

SpecProbe == InitProbe /\ [][NextProbe]_vars

\* the entry and the connection log of host i after a successful probe that
\* found the components installed, or not installed
Probed(i, installed) ==
    LET st == IF installed
              THEN ExecResult(StatusText("loaded", "active", "running", "=", FALSE), 0, "")
              ELSE ExecResult(StatusText("not-found", "inactive", "dead", "=", FALSE), 0, "")
        ver == ExecResult(<<"1.17.3", "\n">>, 0, "")
        ini == ExecResult(<<>>, IF installed THEN 0 ELSE 1, IF installed THEN "" ELSE "exit")
    IN investigateHostChecks(NewHost(i), OSPool[i], st, ver, st, ver, ini)

\* the hosts found installed in the aggregates investigateCluster is run on:
\* all of them, or all but the first; never none, runProbes calling
\* investigateCluster only on a provisioned aggregate
InstalledSets(n) == {inst \in {1..n, 2..n} : inst # {}}

\* investigateCluster is called on an aggregate that a cycle of successful
\* probes left, with any leader flags in the configuration
InitCluster ==
    /\ \E n \in 1..MaxHosts : \E leader \in [1..n -> BOOLEAN] :
          \E inst \in InstalledSets(n) :
             /\ hosts = ConfigOf(n, leader)
             /\ live = [i \in 1..n |-> Probed(i, i \in inst).host]
             /\ th = [i \in 1..n |-> <<Probed(i, i \in inst).host>>]
             /\ texec = [i \in 1..n |-> Probed(i, i \in inst).cmds]
             /\ tpc = [i \in 1..n |-> "done"]
             /\ tidx = [i \in 1..n |-> i]
             /\ terr = [i \in 1..n |-> ""]
    /\ lock = {}
    /\ pc = "investigate"
    /\ taskErr = ""
    /\ err = ""
    /\ ci = 0
    /\ leaderElected = FALSE
    /\ calls = <<>>
    /\ nodes = <<>>
    /\ hostsToBeProvisioned = {}
    /\ nodesToBeRemoved = {}
    /\ uIn = Nil
    /\ uOut = Nil

\* a run of investigateCluster, etcdstatus.Get giving any answer
NextCluster ==
    \/ ClusterEnter
    \/ ApiServerGet
    \/ ElectionEnd
    \/ MemberList
    \/ EtcdGet(EtcdAnswers)
    \/ EtcdEnd
    \/ BuildClient
    \/ ListNodes(NodeListsCycle)
    \/ MarkLock
    \/ MarkNodes

SpecCluster == InitCluster /\ [][NextCluster]_vars

\* a run of investigateCluster, the Kubernetes API returning any node list
NextNodes ==
    \/ ClusterEnter
    \/ ApiServerGet
    \/ ElectionEnd
    \/ MemberList
    \/ EtcdGet(EtcdAnswersCycle)
    \/ EtcdEnd
    \/ BuildClient
    \/ ListNodes(NodeLists)
    \/ MarkLock
    \/ MarkNodes

SpecNodes == InitCluster /\ [][NextNodes]_vars

(***************************************************************************)
(* Claims about systemdStatus (under SpecDecode).                          *)
(***************************************************************************)
Decoded == pc = "applied" /\ uOut.err = ""

SubStateFlags == {SystemDStatusRunning, SystemDStatusRestarting,
                  SystemdDStatusDead, SystemDStatusUnknown}

\* C9: every successfully decoded status text sets exactly one of Running,
\* Restarting, Dead and Unknown: Running iff SubState is "running",
\* Restarting iff "auto-restart", Dead iff "dead", and Unknown iff SubState
\* is none of the three (or absent).
C9_ExactlyOneSubState ==
    Decoded =>
        /\ Cardinality({f \in SubStateFlags : HasFlag(uOut.status, f)}) = 1
        /\ HasFlag(uOut.status, SystemDStatusRunning) <=> (uIn.sub = "running")
        /\ HasFlag(uOut.status, SystemDStatusRestarting) <=> (uIn.sub = "auto-restart")
        /\ HasFlag(uOut.status, SystemdDStatusDead) <=> (uIn.sub = "dead")
        /\ HasFlag(uOut.status, SystemDStatusUnknown)
               <=> (uIn.sub \notin {"running", "auto-restart", "dead"})

\* a text with SubState=dead was decoded to Dead
C9_Witness ==
    /\ Decoded
    /\ uIn.sub = "dead"
    /\ uIn.load = "loaded"
    /\ HasFlag(uOut.status, SystemdDStatusDead)

\* C10: every successfully decoded status text sets Installed iff LoadState
\* is "loaded" and Active iff ActiveState is "active" or "activating",
\* whatever the other two fields are.
C10_InstalledActive ==
    Decoded =>
        /\ HasFlag(uOut.status, ComponentInstalled) <=> (uIn.load = "loaded")
        /\ HasFlag(uOut.status, SystemDStatusActive)
               <=> (uIn.active \in {"active", "activating"})

\* an activating unit that is not loaded was decoded to Active without Installed
C10_Witness ==
    /\ Decoded
    /\ uIn.active = "activating"
    /\ uIn.load = "not-found"
    /\ uIn.sub = "dead"
    /\ HasFlag(uOut.status, SystemDStatusActive)
    /\ ~HasFlag(uOut.status, ComponentInstalled)

(***************************************************************************)
(* Claims about detectKubeletInitialized (under SpecInitialized).          *)
(***************************************************************************)
InitializedSet == HasFlag(uOut.host.Kubelet.Status, KubeletInitialized)

\* C7 as stated: exit code 0 always sets Initialized and succeeds; a
\* positive exit code leaves it unset and returns no error.
C7_Original ==
    pc = "applied" =>
        /\ (uIn.res.exitcode = 0) => (InitializedSet /\ uOut.err = "")
        /\ (uIn.res.exitcode > 0) => (~InitializedSet /\ uOut.err = "")

\* C7 (amended): exit code 0 with no error value sets Initialized and the
\* check succeeds; a positive exit code leaves Initialized unset and returns
\* no error, whether or not an error value accompanies it.
C7_ExitCode ==
    pc = "applied" =>
        /\ (uIn.res.exitcode = 0 /\ uIn.res.err = "") => (InitializedSet /\ uOut.err = "")
        /\ (uIn.res.exitcode > 0) => (~InitializedSet /\ uOut.err = "")

\* the command failed with a positive exit code and an error value: no error
\* is returned and Initialized is unset
C7_Witness ==
    /\ pc = "applied"
    /\ uIn.res.exitcode > 0
    /\ uIn.res.err # ""
    /\ uOut.err = ""
    /\ ~InitializedSet

\* C8 as stated: an error is returned exactly when an error value comes with
\* a negative exit code, and then Initialized is unset.
C8_Original ==
    pc = "applied" =>
        /\ (uOut.err # "") <=> (uIn.res.err # "" /\ uIn.res.exitcode < 0)
        /\ (uOut.err # "") => ~InitializedSet

\* C8 (amended): an error is returned exactly when an error value comes with
\* an exit code that is negative or zero, and then Initialized is unset.
C8_ErrorPropagation ==
    pc = "applied" =>
        /\ (uOut.err # "") <=> (uIn.res.err # "" /\ uIn.res.exitcode <= 0)
        /\ (uOut.err # "") => (uOut.err = uIn.res.err /\ ~InitializedSet)

\* an error value with exit code 0 was propagated
C8_Witness ==
    /\ pc = "applied"
    /\ uIn.res.err # ""
    /\ uIn.res.exitcode = 0
    /\ uOut.err = uIn.res.err
    /\ ~InitializedSet

(***************************************************************************)
(* Claims about the parallel investigation (under Spec).                   *)
(***************************************************************************)
\* C1: once every investigateHost task has finished, whatever the
\* interleaving, the aggregate has exactly one entry per configured host,
\* entry i referring to configured host i, with no hostname twice or missing.
C1_AggregateMatchesConfig ==
    (Len(tpc) > 0 /\ TasksFinished) =>
        /\ Len(live) = N
        /\ \A i \in 1..N : live[i].Config = i /\ HostnameOf(live[i]) = hosts[i].Hostname
        /\ Cardinality({HostnameOf(live[i]) : i \in 1..Len(live)}) = N

\* two hosts were probed, both tasks wrote their results back, and the
\* coordinator has joined them
C1_Witness ==
    /\ pc = "joined"
    /\ N = 2
    /\ tpc[1] = "done" /\ tpc[2] = "done"
    /\ HasFlag(live[1].Kubelet.Status, KubeletInitialized)
    /\ ~HasFlag(live[2].Kubelet.Status, ComponentInstalled)
    /\ HasFlag(live[2].ContainerRuntime.Status, ComponentInstalled)

(***************************************************************************)
(* Claims about investigateCluster (under SpecCluster, C5 under SpecNodes). *)
(***************************************************************************)
\* apiserverstatus.Get was called for host i
HealthAsked(i) ==
    \E k \in 1..Len(calls) : calls[k].call = "apiserverstatus.Get" /\ calls[k].host = i

\* apiserverstatus.Get reported host i healthy
Healthy(i) ==
    \E k \in 1..Len(calls) :
        calls[k].call = "apiserverstatus.Get" /\ calls[k].host = i /\ calls[k].answer

\* the election loop has asked every host
ElectionOver == N > 0 /\ \A i \in 1..N : HealthAsked(i)

Leaders == {i \in 1..N : hosts[i].IsLeader}

\* C2: after the election loop, when some host reported healthy, the leader
\* is exactly the lowest-index healthy host.
C2_FirstHealthyLeads ==
    (ElectionOver /\ \E i \in 1..N : Healthy(i)) =>
        \A i \in 1..N :
            hosts[i].IsLeader <=> (Healthy(i) /\ \A j \in 1..(i - 1) : ~Healthy(j))

\* hosts [A (unhealthy), B (healthy), C (healthy)]: B leads, C does not
C2_Witness ==
    /\ N = 3
    /\ ElectionOver
    /\ ~Healthy(1) /\ Healthy(2) /\ Healthy(3)
    /\ Leaders = {2}

\* C3: once investigateCluster has cleared the leader flags, and after it has
\* returned with success or with any error, at most one host has its leader
\* flag set, whatever the flags of the configuration were before the call.
C3_AtMostOneLeader == (pc # "investigate") => Cardinality(Leaders) <= 1

\* investigateCluster succeeded with two healthy hosts and one leader
C3_Witness ==
    /\ pc = "done"
    /\ err = ""
    /\ Cardinality({i \in 1..N : Healthy(i)}) >= 2
    /\ Cardinality(Leaders) = 1

\* C4: when every host was asked and none reported healthy, investigateCluster
\* returns the quorum error, no leader flag is set, and neither the etcd
\* member list, nor an etcd status, nor the node list is fetched.
C4_QuorumLost ==
    (ElectionOver /\ \A i \in 1..N : ~Healthy(i)) =>
        /\ pc \in {"apiserver", "done"}
        /\ (pc = "done") => (err = QuorumErr)
        /\ Leaders = {}
        /\ ~Called("etcdstatus.MemberList")
        /\ ~Called("etcdstatus.Get")
        /\ ~Called("kubeconfig.BuildKubernetesClientset")
        /\ ~Called("DynamicClient.List")

\* three hosts, none healthy: investigateCluster returned the quorum error
C4_Witness ==
    /\ pc = "done"
    /\ N = 3
    /\ ElectionOver
    /\ \A i \in 1..N : ~Healthy(i)
    /\ err = QuorumErr
    /\ Leaders = {}

NodeNames == {nodes[k] : k \in 1..Len(nodes)}

Succeeded == pc = "done" /\ err = ""

\* C5: after a successful reconciliation hosts-to-be-provisioned is the
\* configured hostnames minus the live node names, and nodes-to-be-removed
\* the live node names minus the configured hostnames.
C5_NodeSetDiff ==
    Succeeded =>
        /\ hostsToBeProvisioned = {hosts[i].Hostname : i \in 1..N} \ NodeNames
        /\ nodesToBeRemoved = NodeNames \ {hosts[i].Hostname : i \in 1..N}

\* configured {h1, h2, h3}, live {h2, h3, x9}: h1 is to be provisioned, x9
\* to be removed
C5_Witness ==
    /\ Succeeded
    /\ {hosts[i].Hostname : i \in 1..N} = {"h1", "h2", "h3"}
    /\ NodeNames = {"h2", "h3", StrayNode}
    /\ hostsToBeProvisioned = {"h1"}
    /\ nodesToBeRemoved = {StrayNode}

\* etcdstatus.Get was called for host i
EtcdAsked(i) ==
    \E k \in 1..Len(calls) : calls[k].call = "etcdstatus.Get" /\ calls[k].host = i

\* etcdstatus.Get failed for host i
EtcdFailed(i) ==
    \E k \in 1..Len(calls) :
        calls[k].call = "etcdstatus.Get" /\ calls[k].host = i /\ ~calls[k].answer.ok

\* etcdstatus.Get reported host i a healthy member
EtcdRunning(i) ==
    \E k \in 1..Len(calls) :
        /\ calls[k].call = "etcdstatus.Get" /\ calls[k].host = i
        /\ calls[k].answer.ok /\ calls[k].answer.Member /\ calls[k].answer.Health

\* C6: a failed etcd lookup of one host does not abort the reconciliation:
\* the loop goes on to the next host, the phase is left only when every host
\* was asked, no error is returned for the lookup, and every host asked has
\* its Etcd PodRunning bit set iff it was reported a healthy member (so the
\* bit of the host whose lookup failed stays unset).
C6_EtcdLenient ==
    /\ \A i \in 1..N :
          EtcdAsked(i) => (HasFlag(live[i].Etcd.Status, PodRunning) <=> EtcdRunning(i))
    /\ \A i \in 1..N :
          EtcdFailed(i) =>
              /\ pc \in {"etcd", "client", "list", "mark", "marking", "done"}
              /\ (pc = "etcd") => (ci > i)
              /\ (pc # "etcd") => \A j \in 1..N : EtcdAsked(j)
              /\ (pc = "done") => (err \in {"", "clientset", "unable to list nodes"})

\* the lookup of the first of three hosts failed, the third host was still
\* marked running, and the reconciliation succeeded
C6_Witness ==
    /\ Succeeded
    /\ N = 3
    /\ EtcdFailed(1)
    /\ ~HasFlag(live[1].Etcd.Status, PodRunning)
    /\ EtcdRunning(3)
    /\ HasFlag(live[3].Etcd.Status, PodRunning)

(***************************************************************************)
(* Claims about the checks of one host (under SpecProbe).                  *)
(***************************************************************************)
Issued(cmd) == \E k \in 1..Len(uOut.cmds) : uOut.cmds[k] = cmd

ImmutableOS == uIn.os \in {"flatcar", "coreos"}

\* the runtime check decoded the status it was answered
RuntimeDecoded == pc = "applied" /\ systemdStatus(uIn.r1).err = ""

\* the kubelet check ran and decoded the status it was answered
KubeletDecoded ==
    /\ pc = "applied"
    /\ Issued("systemctl show kubelet")
    /\ systemdStatus(uIn.r3).err = ""

\* C11 as stated: a host of an immutable OS never issues a runtime version
\* command, has the zero version as its runtime version, and issues the
\* kubelet CLI self-report command in its kubelet check.
C11_Original ==
    (pc = "applied" /\ ImmutableOS) =>
        /\ ~Issued("dockerVersionDPKG") /\ ~Issued("dockerVersionRPM")
        /\ RuntimeDecoded => (uOut.host.ContainerRuntime.Version = ZeroVersion)
        /\ KubeletDecoded => Issued("kubeletVersionCLI")

\* C11 (amended): a host of an immutable OS never issues a runtime version
\* command; its runtime version is the zero version when the runtime is
\* found installed (and stays unset when it is not); its kubelet check
\* issues the kubelet CLI self-report command, and no package query, when
\* the kubelet is found installed (and no version command when it is not).
C11_ImmutableOS ==
    (pc = "applied" /\ ImmutableOS) =>
        /\ ~Issued("dockerVersionDPKG") /\ ~Issued("dockerVersionRPM")
        /\ ~Issued("kubeletVersionDPKG") /\ ~Issued("kubeletVersionRPM")
        /\ RuntimeDecoded =>
              uOut.host.ContainerRuntime.Version =
                  (IF HasFlag(uOut.host.ContainerRuntime.Status, ComponentInstalled)
                   THEN ZeroVersion ELSE Nil)
        /\ KubeletDecoded =>
              (Issued("kubeletVersionCLI")
                  <=> HasFlag(uOut.host.Kubelet.Status, ComponentInstalled))

\* a Flatcar host with both components installed: zero runtime version, no
\* runtime version command, the kubelet CLI command issued
C11_Witness ==
    /\ pc = "applied"
    /\ uIn.os = "flatcar"
    /\ uOut.err = ""
    /\ uOut.host.ContainerRuntime.Version = ZeroVersion
    /\ uOut.host.Kubelet.Version = "1.17.3"
    /\ uOut.cmds = <<"systemctl show docker", "systemctl show kubelet",
                     "kubeletVersionCLI", "kubeletInitializedCMD">>

(***************************************************************************)
(* Claims about the coordination of the tasks (under Spec).                *)
(***************************************************************************)
\* the coordinator has returned to runProbes
CoordinatorReturned == Len(tpc) > 0 /\ pc \notin {"start", "probing"}

\* what the probe tasks write of the aggregate: the runtime and kubelet
\* records of every entry
ProbeRecords(cp) ==
    [i \in 1..Len(cp) |-> <<cp[i].ContainerRuntime, cp[i].Kubelet>>]

\* C12: the coordinator returns, and the reconciliation begins, only when
\* every probe task has finished, with or without an error; and from then
\* on no step changes what the probe tasks write of the aggregate.
C12_JoinBarrier ==
    /\ [](CoordinatorReturned => TasksFinished)
    /\ [][CoordinatorReturned => ProbeRecords(live') = ProbeRecords(live)]_vars

\* the coordinator returned after one task failed and the other wrote back
C12_Witness ==
    /\ pc = "joined"
    /\ N = 2
    /\ tpc[1] = "failed"
    /\ tpc[2] = "done"
    /\ HasFlag(live[2].ContainerRuntime.Status, ComponentInstalled)

\* task t is at a remote command of one of its three checks
TaskAtExec(t) ==
    tpc[t] \in {"docker", "dockerVersion", "kubelet", "kubeletVersion", "initialized"}

\* the main goroutine is at a call of the API-server health, the etcd member
\* list or the etcd status of a host
MainAtStatusCall ==
    \/ pc = "apiserver" /\ ci <= Len(live)
    \/ pc = "memberlist"
    \/ pc = "etcd" /\ ci <= Len(live)

\* the main goroutine is at the client bootstrap or at the node list call
MainAtNodeCall == pc \in {"client", "list"}

\* C13 as stated: the lock is held neither by a task at a remote command
\* nor by investigateCluster at any of its external calls.
C13_Original ==
    /\ \A t \in Tasks : TaskAtExec(t) => t \notin lock
    /\ (MainAtStatusCall \/ MainAtNodeCall) => 0 \notin lock

\* C13 (amended): no task holds the lock at a remote command of its probes,
\* and investigateCluster does not hold it at the client bootstrap and the
\* node list call; it does hold it at the API-server health, etcd member
\* list and etcd status calls.
C13_LockAtCalls ==
    /\ \A t \in Tasks : TaskAtExec(t) => t \notin lock
    /\ MainAtNodeCall => lock = {}
    /\ MainAtStatusCall => lock = {0}

\* a task is at the remote command of its kubelet check while the other
\* task holds the lock
C13_Witness ==
    /\ Len(tpc) = 2
    /\ tpc[1] = "kubelet"
    /\ lock = {2}

(***************************************************************************)
(* Claims about the cycle as a whole (under Spec).                         *)
(***************************************************************************)
\* investigateCluster has been entered past its provisioned guard
Reconciling ==
    pc \in {"investigate", "apiserver", "memberlist", "etcd", "client", "list",
            "mark", "marking"}

\* runProbes has returned after the tasks had been launched
Returned == pc = "done" /\ Len(tpc) > 0

\* no entry carries cluster-level data
OnlyHostData ==
    \A i \in 1..Len(live) :
        /\ ~HasFlag(live[i].APIServer.Status, PodRunning)
        /\ ~HasFlag(live[i].Etcd.Status, PodRunning)
        /\ ~live[i].IsInCluster

\* C14: investigateCluster is invoked exactly when the tasks returned no
\* error and the aggregate is provisioned; a task error is returned without
\* reconciling; a cluster not yet provisioned gives success with no leader
\* flag changed and neither PodRunning nor InCluster set.
C14_ReconcileIff ==
    /\ [](Reconciling => taskErr = "" /\ IsProvisioned(live))
    /\ [](Returned /\ taskErr # "" => err = taskErr /\ ci = 0 /\ OnlyHostData)
    /\ [](Returned /\ taskErr = "" /\ ~IsProvisioned(live)
             => err = "" /\ ci = 0 /\ OnlyHostData)
    /\ [](Returned /\ taskErr = "" /\ IsProvisioned(live) => ci > 0)
    /\ [][ci' = 0 => hosts' = hosts]_vars

\* runProbes returned success for a cluster not yet provisioned whose hosts
\* were all probed, the first one found with an installed runtime
C14_Witness ==
    /\ Returned
    /\ N = 2
    /\ taskErr = ""
    /\ err = ""
    /\ ~IsProvisioned(live)
    /\ HasFlag(live[1].ContainerRuntime.Status, ComponentInstalled)
    /\ hosts[1].IsLeader

\* C15: a task holds the lock while it looks its entry up and while it
\* writes its copy back, not in between; once task i has returned nil, entry
\* i holds, in every later state, the component records of task i's probed
\* copy; and a step changes the component records of no entry but the one
\* whose task has just written back.
C15_WriteBackFidelity ==
    /\ [](\A t \in 1..Len(tpc) :
             /\ tpc[t] \in {"find", "write"} => lock = {t}
             /\ tpc[t] \in {"docker", "dockerVersion", "kubelet", "kubeletVersion",
                            "initialized", "relock"} => t \notin lock
             /\ tpc[t] \in {"write", "done"} => tidx[t] = t
             /\ tpc[t] = "done" =>
                   /\ live[t].Config = t
                   /\ live[t].ContainerRuntime = th[t][1].ContainerRuntime
                   /\ live[t].Kubelet = th[t][1].Kubelet)
    /\ [][\A i \in 1..Len(live) :
             (Len(live') = Len(live) /\ tpc'[i] = tpc[i])
                => ProbeRecords(live')[i] = ProbeRecords(live)[i]]_vars

\* a cycle that succeeded as a whole, with two hosts whose probes gave
\* different results
C15_Witness ==
    /\ Returned
    /\ Len(tpc) = 2
    /\ tpc[1] = "done"
    /\ tpc[2] = "done"
    /\ err = ""
    /\ ci > 0
    /\ live[1].Kubelet # live[2].Kubelet
    /\ live[1].ContainerRuntime # live[2].ContainerRuntime

\* the check a command belongs to: 1 runtime, 2 kubelet, 3 kubelet-initialized
StageOf(cmd) ==
    IF cmd \in {"systemctl show docker", "dockerVersionDPKG", "dockerVersionRPM"} THEN 1
    ELSE IF cmd = "kubeletInitializedCMD" THEN 3
    ELSE 2

\* the checks of which task t's connection has executed a command
StagesRun(t) == {StageOf(texec[t][k]) : k \in 1..Len(texec[t])}

\* C16: the commands of a connection are those of the runtime check, then
\* those of the kubelet check, then that of the kubelet-initialized check; a
\* check starts only after the checks before it ran without error; once a
\* check has returned an error the task has failed with that error, no
\* further command is executed on its connection, and runProbes returns an
\* error of one of the tasks.
C16_CheckOrder ==
    /\ [](\A t \in 1..Len(tpc) :
             /\ \A j, k \in 1..Len(texec[t]) :
                   j <= k => StageOf(texec[t][j]) <= StageOf(texec[t][k])
             /\ tpc[t] \in {"lock", "find", "docker"} => StagesRun(t) = {}
             /\ tpc[t] = "dockerVersion" => texec[t] = <<"systemctl show docker">>
             /\ tpc[t] = "kubelet" => StagesRun(t) = {1}
             /\ tpc[t] = "kubeletVersion" =>
                   /\ StagesRun(t) = {1, 2}
                   /\ texec[t][Len(texec[t])] = "systemctl show kubelet"
             /\ tpc[t] = "initialized" => StagesRun(t) = {1, 2}
             /\ tpc[t] \in {"relock", "write", "done"} => StagesRun(t) = {1, 2, 3}
             /\ terr[t] # "" <=> tpc[t] = "failed"
             /\ terr[t] # "" => taskErr # "")
    /\ [](Returned /\ (\E t \in 1..Len(tpc) : terr[t] # "")
             => \E t \in 1..Len(tpc) : terr[t] # "" /\ err = terr[t])
    /\ [][\A t \in 1..Len(tpc) :
             terr[t] # "" => /\ texec'[t] = texec[t]
                             /\ terr'[t] = terr[t]
                             /\ tpc'[t] = "failed"]_vars

\* the runtime check of a task succeeded and its kubelet check failed: the
\* kubelet-initialized command was not executed, while the other task ran
\* all three checks
C16_Witness ==
    /\ Returned
    /\ Len(tpc) = 2
    /\ tpc[1] = "failed"
    /\ StagesRun(1) = {1, 2}
    /\ err = terr[1]
    /\ StagesRun(2) = {1, 2, 3}

(***************************************************************************)
(* Claims about the node marks (under SpecNodes).                          *)
(***************************************************************************)
\* C17: after a successful reconciliation an entry is InCluster exactly when
\* its hostname is the name of a node of the list the Kubernetes API
\* returned, and exactly when it is not among the hosts to be provisioned.
C17_InClusterIff ==
    Succeeded =>
        \A i \in 1..Len(live) :
            /\ live[i].IsInCluster <=> HostnameOf(live[i]) \in NodeNames
            /\ live[i].IsInCluster <=> HostnameOf(live[i]) \notin hostsToBeProvisioned

\* configured {h1, h2, h3}, live {h2, x9}: only h2 is in the cluster
C17_Witness ==
    /\ Succeeded
    /\ Len(live) = 3
    /\ NodeNames = {"h2", StrayNode}
    /\ ~live[1].IsInCluster
    /\ live[2].IsInCluster
    /\ ~live[3].IsInCluster
    /\ hostsToBeProvisioned = {"h1", "h3"}

(***************************************************************************)
(* Claims about the lock of investigateCluster (under SpecCluster).        *)
(***************************************************************************)
\* C18 as stated: whenever investigateCluster has returned, with success or
\* with any of its errors, the lock is not held.
C18_LockReleased == pc = "done" => lock = {}

(***************************************************************************)
(* Claims about the API-server flags (under SpecCluster).                  *)
(***************************************************************************)
\* investigateCluster has left its election loop
PastElection ==
    \/ pc \in {"memberlist", "etcd", "client", "list", "mark", "marking"}
    \/ pc = "done" /\ err # NotProvisionedErr

\* the hosts apiserverstatus.Get was called for, in the order of the calls
HealthCalls ==
    LET h == SelectSeq(calls, LAMBDA c : c.call = "apiserverstatus.Get")
    IN  [k \in 1..Len(h) |-> h[k].host]

\* C20: after the election loop the health of every host has been queried,
\* once and in the order of the aggregate, and the APIServer PodRunning bit
\* of a host is set exactly when its API server reported healthy, whether
\* the host is the leader or not.
C20_ApiServerRunning ==
    PastElection =>
        /\ HealthCalls = [k \in 1..Len(live) |-> k]
        /\ \A i \in 1..Len(live) :
              HasFlag(live[i].APIServer.Status, PodRunning) <=> Healthy(i)

\* hosts [A (healthy), B (unhealthy), C (healthy)]: A leads, A and C have
\* the bit, B was asked after A and has not
C20_Witness ==
    /\ pc = "memberlist"
    /\ Len(live) = 3
    /\ Healthy(1) /\ ~Healthy(2) /\ Healthy(3)
    /\ Leaders = {1}
    /\ HasFlag(live[1].APIServer.Status, PodRunning)
    /\ ~HasFlag(live[2].APIServer.Status, PodRunning)
    /\ HasFlag(live[3].APIServer.Status, PodRunning)

(***************************************************************************)
(* Claims about failed tasks (under Spec).                                 *)
(***************************************************************************)
\* C19: the entry of a task that has failed keeps, in every later state,
\* the component records the aggregate was built with (status 0, no version),
\* whatever its private copy holds; a step of a task changes the component
\* records of no entry but the one this task writes back, so the entries of
\* the tasks that returned nil keep the records of their own copies.
C19_FailedNeverWrites ==
    /\ [](\A t \in 1..Len(tpc) :
             /\ tpc[t] = "failed" =>
                   /\ live[t].ContainerRuntime = NewHost(t).ContainerRuntime
                   /\ live[t].Kubelet = NewHost(t).Kubelet
             /\ tpc[t] = "done" =>
                   ProbeRecords(live)[t] = <<th[t][1].ContainerRuntime, th[t][1].Kubelet>>)
    /\ [][\A t \in 1..Len(tpc) :
             (Len(live') = Len(live) /\ tpc'[t] = "failed")
                => ProbeRecords(live')[t] = ProbeRecords(live)[t]]_vars

\* the kubelet check of task 1 failed after its runtime check had recorded
\* an installed runtime in the copy; entry 1 is as it was built, and entry 2
\* holds what task 2 found
C19_Witness ==
    /\ Returned
    /\ Len(tpc) = 2
    /\ tpc[1] = "failed"
    /\ tpc[2] = "done"
    /\ HasFlag(th[1][1].ContainerRuntime.Status, ComponentInstalled)
    /\ live[1].ContainerRuntime.Status = 0
    /\ HasFlag(live[2].Kubelet.Status, ComponentInstalled)

====
